---- MODULE Spec2Model ----
(***************************************************************************)
(* A model of the gorm-snowflake schema migrator (AutoMigrate and the      *)
(* operations it drives), of the introspected-type normalisation and of    *)
(* the identifier naming strategy.                                         *)
(*                                                                         *)
(* Identifiers (table, column and constraint names) are sequences of       *)
(* one-character strings, so that upper-casing, quote trimming and         *)
(* truncation are computed and not assumed.  SQL type names are strings.   *)
(***************************************************************************)
EXTENDS Integers, Sequences, FiniteSets, TLC

VARIABLES
    values,       \* the desired entities handed to AutoMigrate
    disableFK,    \* DB.Config.DisableForeignKeyConstraintWhenMigrating
    live,         \* the warehouse: table name -> live table (or NoTable)
    pc,           \* position of AutoMigrate
    idx,          \* index of the entity being synchronised
    columnTypes,  \* the column list fetched for the current entity
    fieldsLeft,   \* DB names of the fields the field loop has not visited
    relsLeft,     \* names of the relationships the loop has not visited
    chksLeft,     \* names of the check constraints the inner loop has not visited
    log,          \* what the current pass asked of and sent to the warehouse
    result,       \* what AutoMigrate returned: "none" (running), "nil", "err"
    pass,         \* number of the current pass
    prevClean,    \* the previous pass returned nil and no query or statement failed
    failures,     \* failures of the execution boundary so far
    reportStyle,  \* how the warehouse spells the types the source does not name
    liveBefore,   \* the warehouse as it was when the current pass began
    ops,          \* number of migrator operations called directly so far
    nsIn,         \* naming strategy: the input of the last call
    nsOut,        \* naming strategy: the name it returned
    tmIn,         \* type mapper: the field of the last call
    tmOut,        \* type mapper: the DDL text it returned
    dialector,    \* the Dialector's Config
    db            \* gorm.DB: its ConnPool, and what Initialize opened and returned

vars == <<values, disableFK, live, pc, idx, columnTypes, fieldsLeft, relsLeft,
          chksLeft, log, result, pass, prevClean, failures, reportStyle,
          liveBefore, ops, nsIn, nsOut, tmIn, tmOut, dialector, db>>

migVars == <<values, disableFK, live, pc, idx, columnTypes, fieldsLeft, relsLeft,
             chksLeft, log, result, pass, prevClean, failures, reportStyle,
             liveBefore, ops>>

nsVars == <<nsIn, nsOut>>

tmVars == <<tmIn, tmOut>>

dialVars == <<dialector, db>>

\* what AutoMigrate and the migrator's operations leave alone
sideVars == <<nsVars, tmVars, dialVars>>

----------------------------------------------------------------------------
(* Bounds of the model *)

\* passes of AutoMigrate in one behaviour
MaxPasses == 2
\* failures the execution boundary injects in one behaviour
MaxFailures == 1
\* how far beyond maxIdentifierLength the candidate names reach
MaxOver == 3
\* migrator operations called directly in one behaviour
MaxOps == 2

----------------------------------------------------------------------------
(* Strings *)

LowerLetters == <<"a","b","c","d","e","f","g","h","i","j","k","l","m",
                  "n","o","p","q","r","s","t","u","v","w","x","y","z">>
UpperLetters == <<"A","B","C","D","E","F","G","H","I","J","K","L","M",
                  "N","O","P","Q","R","S","T","U","V","W","X","Y","Z">>

QuoteChar == "\""

\* strings.ToUpper on one character
ToUpperChar(c) ==
    IF \E i \in 1..26 : LowerLetters[i] = c
    THEN UpperLetters[CHOOSE i \in 1..26 : LowerLetters[i] = c]
    ELSE c

\* strings.ToUpper
ToUpper(s) == [i \in 1..Len(s) |-> ToUpperChar(s[i])]

\* strings.Trim(s, cutset) for a one-character cutset
Trim(s, c) ==
    LET keep == {i \in 1..Len(s) : s[i] # c}
    IN  IF keep = {} THEN <<>>
        ELSE LET lo == CHOOSE i \in keep : \A j \in keep : i <= j
                 hi == CHOOSE i \in keep : \A j \in keep : j <= i
             IN  SubSeq(s, lo, hi)

\* normalizeName folding the case and keeping the quotes
normalizeName_CaseOnly(s) == ToUpper(s)

\* normalizeName
normalizeName(s) == ToUpper(Trim(s, QuoteChar))

----------------------------------------------------------------------------
(* Identifier naming strategy *)

maxIdentifierLength == 255

HexDigits == <<"0","1","2","3","4","5","6","7","8","9","a","b","c","d","e","f">>

\* the number of hex characters of hex.EncodeToString(sum[:8])
DigestLen == 16

\* a code for each character the model uses
CharCode(c) ==
    IF \E i \in 1..26 : LowerLetters[i] = c
    THEN CHOOSE i \in 1..26 : LowerLetters[i] = c
    ELSE IF \E i \in 1..26 : UpperLetters[i] = c
         THEN 26 + (CHOOSE i \in 1..26 : UpperLetters[i] = c)
         ELSE 53

\* a checksum over s[lo..hi], by halves
RECURSIVE CheckSum(_, _, _)
CheckSum(s, lo, hi) ==
    IF lo > hi THEN 7
    ELSE IF lo = hi THEN CharCode(s[lo])
    ELSE LET mid == (lo + hi) \div 2
         IN  (CheckSum(s, lo, mid) * 31 + CheckSum(s, mid + 1, hi) * 17 + (hi - lo)) % 65521

\* hex.EncodeToString(sha1.Sum(name)[:8]): a fixed-width digest of the whole
\* string; the checksum stands for SHA-1
Digest(name) ==
    LET h == CheckSum(name, 1, Len(name))
    IN  [i \in 1..DigestLen |-> HexDigits[(((h \div i) + i) % 16) + 1]]

Max(a, b) == IF a >= b THEN a ELSE b

\* truncateWithHash keeping room for the digest but not for the separator
truncateWithHash_NoSeparatorRoom(name0) ==
    LET name == ToUpper(name0)
    IN  IF Len(name) <= maxIdentifierLength
        THEN name
        ELSE LET tail == Digest(name)
                 keep == Max(maxIdentifierLength - Len(tail), 1)
             IN  SubSeq(name, 1, keep) \o <<"_">> \o tail

\* truncateWithHash hashing a name that is exactly as long as the limit
truncateWithHash_StrictLimit(name0) ==
    LET name == ToUpper(name0)
    IN  IF Len(name) < maxIdentifierLength
        THEN name
        ELSE LET tail == Digest(name)
                 keep == Max(maxIdentifierLength - 1 - Len(tail), 1)
             IN  SubSeq(name, 1, keep) \o <<"_">> \o tail

\* truncateWithHash digesting only the part of the name it keeps
truncateWithHash_DigestOfPrefix(name0) ==
    LET name == ToUpper(name0)
    IN  IF Len(name) <= maxIdentifierLength
        THEN name
        ELSE LET keep == Max(maxIdentifierLength - 1 - DigestLen, 1)
                 tail == Digest(SubSeq(name, 1, keep))
             IN  SubSeq(name, 1, keep) \o <<"_">> \o tail

truncateWithHash(name0) ==
    LET name == ToUpper(name0)
    IN  IF Len(name) <= maxIdentifierLength
        THEN name
        ELSE LET tail == Digest(name)
                 keep == Max(maxIdentifierLength - 1 - Len(tail), 1)
             IN  SubSeq(name, 1, keep) \o <<"_">> \o tail

\* the base names of the wrapped default strategy: prefix, table and name
\* joined by "_"
DefaultFormatName(prefix, table, name) == prefix \o <<"_">> \o table \o <<"_">> \o name

UniqueName(table, column) == truncateWithHash(table \o <<"_">> \o column)

RelationshipFKName(table, relName) ==
    truncateWithHash(DefaultFormatName(<<"f","k">>, table, relName))

CheckerName(table, column) ==
    truncateWithHash(DefaultFormatName(<<"c","h","k">>, table, column))

IndexName(table, column) ==
    truncateWithHash(DefaultFormatName(<<"i","d","x">>, table, column))

IsUpperChar(c) == \E i \in 1..26 : UpperLetters[i] = c
IsLowerChar(c) == \E i \in 1..26 : LowerLetters[i] = c

ToLowerChar(c) ==
    IF IsUpperChar(c) THEN LowerLetters[CHOOSE i \in 1..26 : UpperLetters[i] = c] ELSE c

\* the column name of the wrapped default strategy: snake case, a "_" set
\* before each capital that follows a small letter (names with no run of
\* capitals)
RECURSIVE DefaultColumnNameFrom(_, _)
DefaultColumnNameFrom(s, i) ==
    IF i > Len(s) THEN <<>>
    ELSE (IF i > 1 /\ IsUpperChar(s[i]) /\ IsLowerChar(s[i - 1]) THEN <<"_">> ELSE <<>>)
         \o <<ToLowerChar(s[i])>> \o DefaultColumnNameFrom(s, i + 1)

DefaultColumnName(table, column) == DefaultColumnNameFrom(column, 1)

\* the map "reserved" of ColumnName
ReservedWords == {<<"O","R","D","E","R">>, <<"L","O","C","A","L","I","T","Y">>}

\* ColumnName looking the name up before it is upper-cased
ColumnName_LookupBeforeUpper(table, column) ==
    LET col == DefaultColumnName(table, column)
    IN  IF col \in ReservedWords
        THEN <<QuoteChar>> \o ToUpper(col) \o <<QuoteChar>> ELSE ToUpper(col)

\* NamingStrategy.ColumnName: upper case, quoted when reserved
ColumnName(table, column) ==
    LET col == ToUpper(DefaultColumnName(table, column))
    IN  IF col \in ReservedWords THEN <<QuoteChar>> \o col \o <<QuoteChar>> ELSE col

\* the field names ColumnName is applied to
FieldNameInputs ==
    { <<"c","r","e","a","t","e","d","_","a","t">>, <<"u","s","e","r">>,
      <<"e","m","a","i","l">>, <<"E","m","a","i","l","A","d","d","r","e","s","s">>,
      <<"o","r","d","e","r">>, <<"O","r","d","e","r">>, <<"O","R","D","E","R">>,
      <<"O","r","D","e","r">>, <<"o","r","d","e","r","s">>,
      <<"l","o","c","a","l","i","t","y">>, <<"L","o","c","a","l","i","t","y">>,
      <<"i","d">> }

\* the strings the naming operations are applied to
Rep(c, n) == [i \in 1..n |-> c]

NameLens == {1, 6} \cup ((maxIdentifierLength - 6)..(maxIdentifierLength + MaxOver))

TableInputs ==
    {Rep(c, n) : c \in {"t", "T", "_"}, n \in NameLens} \cup {<<"a","g","e","n","t","s">>}

ColumnInputs == {<<"i","d">>, <<"U","s","e","r","_","I","D">>, Rep("c", 20)}

\* no naming call is under way
NsIdle ==
    /\ nsIn = [op |-> "none", table |-> <<>>, column |-> <<>>]
    /\ nsOut = <<>>

NsOps == {"UniqueName", "RelationshipFKName", "CheckerName", "IndexName"}

\* a naming operation is about to be called on some input
NsInit ==
    /\ nsIn \in [op : NsOps, table : TableInputs, column : ColumnInputs]
                \cup [op : {"ColumnName"}, table : {<<"u","s","e","r","s">>},
                      column : FieldNameInputs]
    /\ nsOut = <<>>

CallColumnName ==
    /\ nsIn.op = "ColumnName"
    /\ nsOut = <<>>
    /\ nsOut' = ColumnName(nsIn.table, nsIn.column)
    /\ UNCHANGED nsIn

CallUniqueName ==
    /\ nsIn.op = "UniqueName"
    /\ nsOut = <<>>
    /\ nsOut' = UniqueName(nsIn.table, nsIn.column)
    /\ UNCHANGED nsIn

CallRelationshipFKName ==
    /\ nsIn.op = "RelationshipFKName"
    /\ nsOut = <<>>
    /\ nsOut' = RelationshipFKName(nsIn.table, nsIn.column)
    /\ UNCHANGED nsIn

CallCheckerName ==
    /\ nsIn.op = "CheckerName"
    /\ nsOut = <<>>
    /\ nsOut' = CheckerName(nsIn.table, nsIn.column)
    /\ UNCHANGED nsIn

CallIndexName ==
    /\ nsIn.op = "IndexName"
    /\ nsOut = <<>>
    /\ nsOut' = IndexName(nsIn.table, nsIn.column)
    /\ UNCHANGED nsIn

----------------------------------------------------------------------------
(* Type mapper *)

\* Dialector.DataTypeOf: the DDL type of a field, as the text before the
\* first "(" (base) and the parenthesised size (0: none)
DataTypeOf(field) ==
    CASE field.DataType = "bool" -> [base |-> "BOOLEAN", size |-> 0]
      [] field.DataType \in {"int", "uint"} ->
            IF field.AutoIncrement
            THEN [base |-> "BIGINT IDENTITY", size |-> 1]
            ELSE [base |-> "BIGINT", size |-> 0]
      [] field.DataType = "float" -> [base |-> "FLOAT", size |-> 0]
      [] field.DataType = "string" ->
            LET size == IF (field.PrimaryKey \/ field.HasIndex) /\ field.Size = 0
                        THEN 256 ELSE field.Size
            IN  IF size > 0 /\ size <= 4000
                THEN [base |-> "VARCHAR", size |-> size]
                ELSE [base |-> "VARCHAR", size |-> 0]
      [] field.DataType = "time" -> [base |-> "TIMESTAMP_NTZ", size |-> 0]
      [] field.DataType = "bytes" -> [base |-> "VARBINARY", size |-> 0]
      [] OTHER -> [base |-> field.DataType, size |-> 0]

Nil == [nil |-> TRUE]

\* a rendered default: its text, bare or between quotes
Rendered(quoted, text) == [quoted |-> quoted, text |-> text]

NoDefault == Rendered(FALSE, <<>>)

DecimalDigits == {"0","1","2","3","4","5","6","7","8","9"}

\* strconv.ParseFloat succeeds: an optional sign, digits with at most one
\* point, or one of the words it accepts (exponents and hexadecimal forms
\* are not among the texts of the model)
ParsesAsFloat(text) ==
    LET body == IF Len(text) > 0 /\ text[1] \in {"+", "-"} THEN Tail(text) ELSE text
        word == ToUpper(body)
    IN  \/ word \in {<<"I","N","F">>, <<"I","N","F","I","N","I","T","Y">>, <<"N","A","N">>}
        \/ /\ \E i \in 1..Len(body) : body[i] \in DecimalDigits
           /\ \A i \in 1..Len(body) : body[i] \in DecimalDigits \cup {"."}
           /\ Cardinality({i \in 1..Len(body) : body[i] = "."}) <= 1

IdentityKeyword == <<"G","E","N","E","R","A","T","E","D"," ","B","Y"," ","D","E","F","A","U","L","T"," ","A","S"," ","I","D","E","N","T","I","T","Y">>

CurrentTimestampKeyword == <<"C","U","R","R","E","N","T","_","T","I","M","E","S","T","A","M","P">>

NullKeyword == <<"N","U","L","L">>

\* Dialector.DefaultValueOf
DefaultValueOf(field) ==
    IF field.AutoIncrement THEN Rendered(FALSE, IdentityKeyword)
    ELSE IF field.DefaultValue = <<>> THEN Rendered(FALSE, NullKeyword)
    ELSE LET up == ToUpper(field.DefaultValue)
         IN  CASE up = CurrentTimestampKeyword -> Rendered(FALSE, CurrentTimestampKeyword)
               [] up = <<"I","D","E","N","T","I","T","Y">> -> Rendered(FALSE, IdentityKeyword)
               [] OTHER ->
                    IF up = <<"T","R","U","E">> \/ up = <<"F","A","L","S","E">>
                    THEN Rendered(FALSE, up)
                    ELSE IF ParsesAsFloat(field.DefaultValue)
                         THEN Rendered(FALSE, field.DefaultValue)
                         ELSE Rendered(TRUE, field.DefaultValue)

\* Dialector.Explain of a bind variable holding the parsed default value:
\* a string between quotes, any other value as it prints
Explain(value) ==
    IF value.kind = "string" THEN Rendered(TRUE, value.text)
    ELSE Rendered(FALSE, value.text)

SkipDefaultMarker == <<"(","-",")">>

\* FullDataTypeOf rendering every default through DefaultValueOf
DefaultClause_ByKind(field) ==
    IF field.HasDefaultValue /\ (field.DefaultValueInterface # Nil \/ field.DefaultValue # <<>>)
    THEN DefaultValueOf(field)
    ELSE NoDefault

\* Migrator.FullDataTypeOf, the DEFAULT clause: NoDefault when there is none
DefaultClause(field) ==
    IF field.HasDefaultValue /\ (field.DefaultValueInterface # Nil \/ field.DefaultValue # <<>>)
    THEN IF field.DefaultValueInterface # Nil
         THEN Explain(field.DefaultValueInterface)
         ELSE IF field.DefaultValue # SkipDefaultMarker
              THEN Rendered(FALSE, field.DefaultValue)
              ELSE NoDefault
    ELSE NoDefault

\* Migrator.FullDataTypeOf: the type, then NOT NULL, then UNIQUE, then
\* DEFAULT; clauses lists what was appended, in the order of appending
FullDataTypeOf(field) ==
    [type |-> DataTypeOf(field), notNull |-> field.NotNull, unique |-> field.Unique,
     default |-> DefaultClause(field),
     clauses |-> <<"TYPE">>
                 \o (IF field.NotNull THEN <<"NOT NULL">> ELSE <<>>)
                 \o (IF field.Unique THEN <<"UNIQUE">> ELSE <<>>)
                 \o (IF DefaultClause(field) # NoDefault THEN <<"DEFAULT">> ELSE <<>>)]

\* strings.ToUpper on a type name (the type names of the model are upper
\* case, but for the lower-case spellings listed here)
TypeToUpper(t) ==
    CASE t = "varchar" -> "VARCHAR"
      [] t = "number" -> "NUMBER"
      [] OTHER -> t

\* normalizedColumnType.DatabaseTypeName: the introspected type name of a
\* live column, normalised for comparison
DatabaseTypeName(n) ==
    LET raw == n.c.RawType
    IN  CASE TypeToUpper(raw) \in {"NUMBER", "DECIMAL", "NUMERIC", "FIXED"} ->
                IF n.c.ScaleOk /\ n.c.Scale > 0 THEN "FLOAT" ELSE "BIGINT"
          [] TypeToUpper(raw) \in {"TEXT", "VARCHAR"} -> "TEXT"
          [] TypeToUpper(raw) = "BOOLEAN" -> "BOOLEAN"
          [] OTHER -> raw

\* Migrator.ColumnTypes: every live column wrapped by normalizedColumnType
ColumnTypes(cols) == [i \in 1..Len(cols) |-> [c |-> cols[i]]]

----------------------------------------------------------------------------
(* The desired schema *)

\* NamingStrategy.TableName
TableName(table) == ToUpper(table)

NoTable == [exists |-> FALSE]

UsersTable == TableName(<<"u","s","e","r","s">>)
OrdersTable == TableName(<<"o","r","d","e","r","s">>)

TableNames == {UsersTable, OrdersTable}

\* schema.Field, with the attributes the migrator reads
Field(table, name, dataType, size, notNull, primaryKey, autoIncrement, hasIndex) ==
    [DBName |-> ColumnName(table, name), DataType |-> dataType, Size |-> size,
     NotNull |-> notNull, PrimaryKey |-> primaryKey,
     AutoIncrement |-> autoIncrement, HasIndex |-> hasIndex, Unique |-> FALSE,
     HasDefaultValue |-> autoIncrement, DefaultValue |-> <<>>, DefaultValueInterface |-> Nil]

IdField(table) == Field(table, <<"i","d">>, "int", 64, FALSE, TRUE, TRUE, FALSE)

NameField(table) == Field(table, <<"n","a","m","e">>, "string", 0, FALSE, FALSE, FALSE, FALSE)

\* the second field of the ORDERS entity, one of these
FieldMenu ==
    LET t == OrdersTable
        n == <<"n","a","m","e">>
    IN  { NameField(t),
          Field(t, n, "string", 100, TRUE, FALSE, FALSE, FALSE),
          Field(t, n, "string", 5000, FALSE, FALSE, FALSE, FALSE),
          Field(t, n, "string", 0, FALSE, TRUE, FALSE, FALSE),
          Field(t, n, "bool", 0, FALSE, FALSE, FALSE, FALSE),
          Field(t, n, "int", 64, TRUE, FALSE, FALSE, FALSE),
          Field(t, n, "uint", 32, FALSE, TRUE, FALSE, FALSE),
          Field(t, n, "float", 64, FALSE, FALSE, FALSE, FALSE),
          Field(t, n, "time", 0, TRUE, FALSE, FALSE, FALSE),
          Field(t, n, "bytes", 0, FALSE, FALSE, FALSE, FALSE),
          Field(t, <<"o","r","d","e","r">>, "int", 64, FALSE, FALSE, FALSE, FALSE) }

\* schema.Relationship with what ParseConstraint makes of it: HasConstraint
\* is "ParseConstraint() != nil", Own is "constraint.Schema == stmt.Schema",
\* Ref the referenced table
Relation(table, relName, hasConstraint, own, ref) ==
    [Name |-> RelationshipFKName(table, relName), HasConstraint |-> hasConstraint,
     Own |-> own, Ref |-> ref]

RelUser == Relation(OrdersTable, <<"U","s","e","r">>, TRUE, TRUE, UsersTable)
RelPayer == Relation(OrdersTable, <<"P","a","y","e","r">>, TRUE, TRUE, UsersTable)
RelItems == Relation(<<"I","T","E","M","S">>, <<"I","t","e","m","s">>, TRUE, FALSE, OrdersTable)
RelTags == Relation(OrdersTable, <<"T","a","g","s">>, FALSE, FALSE, OrdersTable)

RelChoices == { {}, {RelUser}, {RelItems}, {RelTags}, {RelUser, RelPayer}, {RelUser, RelItems} }

Check(table, name) == [Name |-> CheckerName(table, name)]

ChkQty == Check(OrdersTable, <<"q","t","y">>)

CheckChoices == { {}, {ChkQty} }

\* an entity: its table, its fields in declaration order (DBNames) and by
\* name (FieldsByDBName), its relationships and its check constraints
Entity(table, fields, rels, checks) ==
    [Table |-> table,
     DBNames |-> [i \in 1..Len(fields) |-> fields[i].DBName],
     FieldsByDBName |-> [n \in {fields[i].DBName : i \in 1..Len(fields)} |->
                            CHOOSE f \in {fields[i] : i \in 1..Len(fields)} : f.DBName = n],
     Relations |-> rels,
     Checks |-> checks]

UsersEntity == Entity(UsersTable, <<IdField(UsersTable), NameField(UsersTable)>>, {}, {})

OrdersEntity(f, rels, checks) == Entity(OrdersTable, <<IdField(OrdersTable), f>>, rels, checks)

PrimaryFields(e) ==
    LET pk == {i \in 1..Len(e.DBNames) : e.FieldsByDBName[e.DBNames[i]].PrimaryKey}
    IN  {e.DBNames[i] : i \in pk}

\* the foreign keys CreateTable declares: relationships whose constraint is
\* the entity's own
OwnConstraints(e, disable) ==
    IF disable THEN {} ELSE {r \in e.Relations : r.HasConstraint /\ r.Own}

\* migrator ReorderModels: with autoAdd the entities an entity depends on
\* are put before it; without it the entities stay in the order given
DependsOn(a, b) == \E r \in a.Relations : r.HasConstraint /\ r.Own /\ r.Ref = b.Table

ReorderModels(vals, autoAdd) ==
    IF autoAdd /\ Len(vals) = 2 /\ DependsOn(vals[1], vals[2]) /\ ~DependsOn(vals[2], vals[1])
    THEN <<vals[2], vals[1]>>
    ELSE vals

----------------------------------------------------------------------------
(* The warehouse behind the execution boundary *)

\* the length the warehouse gives a VARCHAR declared without one
MaxVarcharLength == 16777216
\* the length the warehouse gives a binary column
MaxBinaryLength == 8388608

\* Dialector.QuoteTo writes an identifier upper-cased
QuoteTo(str) == ToUpper(str)

\* the name under which the warehouse stores a column written by QuoteTo:
\* a quoted identifier is stored without its quotes
StoredName(dbName) == Trim(QuoteTo(dbName), QuoteChar)

\* the source names an introspected spelling for the numeric, textual,
\* boolean and temporal types; for FLOAT and VARBINARY columns it names
\* none, and the warehouse reports them either as declared or as REAL and
\* BINARY
ReportStyles == {"declared", "driver"}

LiveColumn(name, raw, scale, scaleOk, length, lengthOk, nullable, nullableOk) ==
    [Name |-> name, RawType |-> raw, Scale |-> scale, ScaleOk |-> scaleOk,
     Length |-> length, LengthOk |-> lengthOk,
     Nullable |-> nullable, NullableOk |-> nullableOk]

\* the live column a column definition "name type [NOT NULL]" makes
NewColumn(dbName, full, primaryKey, style) ==
    LET name == StoredName(dbName)
        nullable == ~(full.notNull \/ primaryKey)
        base == full.type.base
    IN  CASE base \in {"BIGINT", "BIGINT IDENTITY"} ->
                LiveColumn(name, "FIXED", 0, TRUE, 0, FALSE, nullable, TRUE)
          [] base = "VARCHAR" ->
                LiveColumn(name, "TEXT", 0, FALSE,
                           IF full.type.size > 0 THEN full.type.size ELSE MaxVarcharLength,
                           TRUE, nullable, TRUE)
          [] base = "FLOAT" ->
                LiveColumn(name, IF style = "driver" THEN "REAL" ELSE "FLOAT",
                           0, FALSE, 0, FALSE, nullable, TRUE)
          [] base = "VARBINARY" ->
                LiveColumn(name, IF style = "driver" THEN "BINARY" ELSE "VARBINARY",
                           0, FALSE, MaxBinaryLength, TRUE, nullable, TRUE)
          [] OTHER ->
                LiveColumn(name, base, 0, FALSE, 0, FALSE, nullable, TRUE)

LiveTable(cols, constraints) == [exists |-> TRUE, columns |-> cols, constraints |-> constraints]

\* CREATE TABLE IF NOT EXISTS
ExecCreateTable(lv, stmt, style) ==
    IF lv[stmt.table].exists THEN lv
    ELSE [lv EXCEPT ![stmt.table] =
            LiveTable([i \in 1..Len(stmt.columns) |->
                          NewColumn(stmt.columns[i].name, stmt.columns[i].full,
                                    stmt.columns[i].name \in stmt.primaryKeys, style)],
                      stmt.constraints)]

\* ALTER TABLE ... ADD <column> <type>
ExecAddColumn(lv, stmt, style) ==
    [lv EXCEPT ![stmt.table].columns =
        Append(@, NewColumn(stmt.name, stmt.full, FALSE, style))]

\* ALTER TABLE ... ALTER COLUMN <column> [SET DATA TYPE <type>] [SET|DROP NOT NULL]
AlterColumn(col, stmt, style) ==
    LET typed == IF \E i \in 1..Len(stmt.clauses) : stmt.clauses[i] = "SET DATA TYPE"
                 THEN NewColumn(col.Name, [type |-> stmt.type, notNull |-> ~col.Nullable,
                                           unique |-> FALSE], FALSE, style)
                 ELSE col
    IN  IF \E i \in 1..Len(stmt.clauses) : stmt.clauses[i] = "SET NOT NULL"
        THEN [typed EXCEPT !.Nullable = FALSE, !.NullableOk = TRUE]
        ELSE IF \E i \in 1..Len(stmt.clauses) : stmt.clauses[i] = "DROP NOT NULL"
             THEN [typed EXCEPT !.Nullable = TRUE, !.NullableOk = TRUE]
             ELSE [typed EXCEPT !.Nullable = col.Nullable, !.NullableOk = col.NullableOk]

ExecAlterColumn(lv, stmt, style) ==
    [lv EXCEPT ![stmt.table].columns =
        [i \in 1..Len(@) |->
            IF normalizeName(@[i].Name) = normalizeName(stmt.name)
            THEN AlterColumn(@[i], stmt, style) ELSE @[i]]]

\* ALTER TABLE ... ADD CONSTRAINT
ExecAddConstraint(lv, stmt) ==
    [lv EXCEPT ![stmt.table].constraints = @ \cup {stmt.name}]

\* SELECT count(*) FROM INFORMATION_SCHEMA.TABLES WHERE table_name = ?
CountTables(lv, tableName) ==
    IF tableName \in DOMAIN lv /\ lv[tableName].exists THEN 1 ELSE 0

\* SELECT count(*) FROM INFORMATION_SCHEMA.TABLE_CONSTRAINTS WHERE ...
CountConstraints(lv, constraintName, tableName) ==
    IF tableName \in DOMAIN lv /\ lv[tableName].exists
       /\ constraintName \in lv[tableName].constraints
    THEN 1 ELSE 0

----------------------------------------------------------------------------
(* The migrator *)

\* one entry of the log: a query or a statement sent to the warehouse, or
\* an operation AutoMigrate invoked
Event(kind, op, table, name, clauses, ok, answer) ==
    [kind |-> kind, op |-> op, table |-> table, name |-> name,
     clauses |-> clauses, ok |-> ok, answer |-> answer]

Query(op, table, name, ok, answer) == Event("query", op, table, name, <<>>, ok, answer)
Call(op, table, name) == Event("call", op, table, name, <<>>, TRUE, FALSE)
Exec(op, table, name, clauses, ok) == Event("exec", op, table, name, clauses, ok, FALSE)

\* Migrator.HasTable: the error of the query is dropped and count stays 0
HasTable(lv, e, ok) ==
    LET count == IF ok THEN CountTables(lv, ToUpper(e.Table)) ELSE 0
    IN  count > 0

\* Migrator.HasConstraint: the error of the query is dropped and count stays 0
HasConstraint(lv, e, name, ok) ==
    LET count == IF ok THEN CountConstraints(lv, ToUpper(name), ToUpper(e.Table)) ELSE 0
    IN  count > 0

\* strings.Contains(strings.ToUpper(string(field.DataType)), "PRIMARY KEY")
HasPrimaryKeyInDataType(e) ==
    \E n \in DOMAIN e.FieldsByDBName :
        e.FieldsByDBName[n].DataType \in {"BIGINT PRIMARY KEY", "bigint primary key"}

\* Migrator.CreateTable: the CREATE TABLE IF NOT EXISTS statement of an entity
CreateTable(e, disable) ==
    [table |-> e.Table,
     columns |-> [i \in 1..Len(e.DBNames) |->
                    [name |-> e.DBNames[i],
                     full |-> FullDataTypeOf(e.FieldsByDBName[e.DBNames[i]])]],
     primaryKeys |-> IF ~HasPrimaryKeyInDataType(e) /\ PrimaryFields(e) # {}
                     THEN PrimaryFields(e) ELSE {},
     constraints |-> {r.Name : r \in OwnConstraints(e, disable)}
                     \cup {c.Name : c \in e.Checks}]

\* the lookup comparing the names as they are written
FindColumn_ExactName(cts, field) ==
    LET hits == {i \in 1..Len(cts) : cts[i].c.Name = field.DBName}
    IN  IF hits = {} THEN Nil
        ELSE cts[CHOOSE i \in hits : \A j \in hits : i <= j]

\* AutoMigrate, the loop that looks the field up among the live columns
FindColumn(cts, field) ==
    LET hits == {i \in 1..Len(cts) :
                    normalizeName(cts[i].c.Name) = normalizeName(field.DBName)}
    IN  IF hits = {} THEN Nil
        ELSE cts[CHOOSE i \in hits : \A j \in hits : i <= j]

\* gorm's AddColumn: ALTER TABLE ? ADD ? ? with the field's full data type
AddColumn(e, dbName) ==
    [table |-> e.Table, name |-> dbName, full |-> FullDataTypeOf(e.FieldsByDBName[dbName])]

\* the comparison without the VARCHAR/TEXT rule
TypeMismatch_NoTextRule(baseExpected, baseActual) == baseExpected # baseActual

\* MigrateColumn: the comparison of the base types
TypeMismatch(baseExpected, baseActual) ==
    IF baseExpected = "VARCHAR" /\ baseActual = "TEXT"
    THEN FALSE
    ELSE baseExpected # baseActual

\* MigrateColumn: the comparison of the lengths
LengthMismatch(field, columnType) ==
    columnType.c.LengthOk /\ field.Size > 0 /\ field.Size # columnType.c.Length

\* the nullability clause without the exemption of primary keys
NullabilityClauses_NoPrimaryKeyExemption(field, columnType) ==
    LET isNullable == columnType.c.Nullable
        ok == columnType.c.NullableOk
    IN  IF ok /\ field.NotNull # ~isNullable
        THEN IF field.NotNull THEN <<"SET NOT NULL">> ELSE <<"DROP NOT NULL">>
        ELSE <<>>

\* MigrateColumn: the nullability clause
NullabilityClauses(field, columnType) ==
    LET isNullable == columnType.c.Nullable
        ok == columnType.c.NullableOk
    IN  IF ~field.PrimaryKey /\ ok /\ field.NotNull # ~isNullable
        THEN IF field.NotNull THEN <<"SET NOT NULL">> ELSE <<"DROP NOT NULL">>
        ELSE <<>>

\* MigrateColumn altering identity columns like the others
MigrateColumn_NoIdentitySkip(field, columnType) ==
    LET expectedType == DataTypeOf(field)
        actualType == DatabaseTypeName(columnType)
        baseExpected == TypeToUpper(expectedType.base)
        baseActual == TypeToUpper(actualType)
        typeMismatch == TypeMismatch(baseExpected, baseActual)
        lengthMismatch == LengthMismatch(field, columnType)
    IN  (IF typeMismatch \/ lengthMismatch THEN <<"SET DATA TYPE">> ELSE <<>>)
        \o NullabilityClauses(field, columnType)

\* Migrator.MigrateColumn: the clauses of the ALTER COLUMN statement (none:
\* no statement)
MigrateColumn(field, columnType) ==
    IF field.AutoIncrement THEN <<>>
    ELSE LET expectedType == DataTypeOf(field)
             actualType == DatabaseTypeName(columnType)
             baseExpected == TypeToUpper(expectedType.base)
             baseActual == TypeToUpper(actualType)
             typeMismatch == TypeMismatch(baseExpected, baseActual)
             lengthMismatch == LengthMismatch(field, columnType)
         IN  (IF typeMismatch \/ lengthMismatch THEN <<"SET DATA TYPE">> ELSE <<>>)
             \o NullabilityClauses(field, columnType)

\* Migrator.GuessConstraintAndTable: no constraint, and the table
GuessConstraintAndTable(e, name) == [constraint |-> Nil, table |-> e.Table]

\* Migrator.CreateConstraint: the statements it sends
CreateConstraint(e, name) ==
    LET g == GuessConstraintAndTable(e, name)
    IN  IF g.constraint # Nil
        THEN <<[table |-> g.table, name |-> g.constraint.Name]>>
        ELSE <<>>

\* AutoMigrate, "if !HasConstraint { CreateConstraint }" for one constraint
\* name: what is logged, the warehouse afterwards, and whether it failed
EnsureConstraint(lv, e, name, qok, xok) ==
    LET has == HasConstraint(lv, e, name, qok)
        stmts == IF has THEN <<>> ELSE CreateConstraint(e, name)
    IN  [events |-> <<Query("HasConstraint", e.Table, name, qok, has)>>
                    \o (IF has THEN <<>> ELSE <<Call("CreateConstraint", e.Table, name)>>)
                    \o [i \in 1..Len(stmts) |->
                          Exec("ADD CONSTRAINT", stmts[i].table, name, <<>>, xok)],
         live |-> IF stmts # <<>> /\ xok THEN ExecAddConstraint(lv, stmts[1]) ELSE lv,
         sent |-> Len(stmts),
         err |-> stmts # <<>> /\ ~xok]

\* table creation whatever the existence check answered
NextAfterHasTable_AlwaysCreate(has) == "CreateTable"

\* AutoMigrate: after the existence check, create or diff
NextAfterHasTable(has) == IF ~has THEN "CreateTable" ELSE "ColumnTypes"

\* an error that is not returned
ReturnsOn_Never(ok) == FALSE

\* AutoMigrate: "if err != nil { return err }"
ReturnsOn(ok) == ~ok

\* no type-mapper call is under way
TmIdle ==
    /\ tmIn = [op |-> "none"]
    /\ tmOut = <<>>

\* the Dialector as snowflake.Open(dsn) makes it, initialized
DialReady ==
    /\ dialector = [DriverName |-> "snowflake", DSN |-> "dsn", Conn |-> Nil, Connector |-> Nil]
    /\ db = [ConnPool |-> [from |-> "DSN", of |-> "dsn"], opened |-> <<"sql.Open">>,
             err |-> "nil"]

----------------------------------------------------------------------------
(* The states AutoMigrate starts from *)

\* the live columns the second column of ORDERS starts as: what the
\* warehouse makes of any field of the menu, and columns made elsewhere
LiveMenu(name) ==
    { NewColumn(name, FullDataTypeOf(f), f.PrimaryKey, style) :
        f \in FieldMenu, style \in ReportStyles }
    \cup { LiveColumn(name, "VARCHAR", 0, FALSE, 100, TRUE, TRUE, TRUE),
           LiveColumn(name, "varchar", 0, FALSE, 100, TRUE, FALSE, TRUE),
           LiveColumn(name, "NUMBER", 2, TRUE, 0, FALSE, TRUE, TRUE),
           LiveColumn(name, "TEXT", 0, FALSE, MaxVarcharLength, FALSE, FALSE, FALSE),
           LiveColumn([i \in 1..Len(name) |-> IF name[i] = "N" THEN "n" ELSE name[i]],
                      "TEXT", 0, FALSE, MaxVarcharLength, TRUE, TRUE, TRUE) }

AsCreated(e, disable, style) ==
    ExecCreateTable([t \in TableNames |-> NoTable], CreateTable(e, disable), style)[e.Table]

InitialUsers == {NoTable, AsCreated(UsersEntity, FALSE, "driver")}

InitialOrders(f, rels, checks) ==
    LET e == OrdersEntity(f, rels, checks)
        idCol == NewColumn(IdField(OrdersTable).DBName, FullDataTypeOf(IdField(OrdersTable)),
                           TRUE, "driver")
        names == {r.Name : r \in OwnConstraints(e, FALSE)} \cup {c.Name : c \in checks}
    IN  IF rels = {} /\ checks = {}
        THEN {NoTable}
             \cup {LiveTable(ids \o second, {}) :
                     ids \in {<<>>, <<idCol>>},
                     second \in {<<>>} \cup {<<c>> : c \in LiveMenu(StoredName(f.DBName))}}
        ELSE {NoTable}
             \cup {LiveTable(AsCreated(e, FALSE, "driver").columns, cons) :
                     cons \in SUBSET names}

Init ==
    /\ \E f \in FieldMenu, rels \in RelChoices, checks \in CheckChoices,
          first \in {UsersTable, OrdersTable} :
          /\ (rels = {} /\ checks = {}) \/ f = NameField(OrdersTable)
          /\ (rels = {} /\ checks = {}) => first = UsersTable
          /\ values = IF first = UsersTable
                      THEN <<UsersEntity, OrdersEntity(f, rels, checks)>>
                      ELSE <<OrdersEntity(f, rels, checks), UsersEntity>>
          /\ disableFK \in IF \E r \in rels : r.Own THEN BOOLEAN ELSE {FALSE}
          /\ reportStyle \in IF DataTypeOf(f).base \in {"FLOAT", "VARBINARY"}
                              THEN ReportStyles ELSE {"declared"}
          /\ \E u \in InitialUsers, o \in InitialOrders(f, rels, checks) :
                live = [t \in TableNames |-> IF t = UsersTable THEN u ELSE o]
    /\ pc = "idle"
    /\ idx = 1
    /\ columnTypes = [table |-> <<>>, cols |-> <<>>]
    /\ fieldsLeft = {}
    /\ relsLeft = {}
    /\ chksLeft = {}
    /\ log = <<>>
    /\ result = "none"
    /\ pass = 0
    /\ prevClean = FALSE
    /\ failures = 0
    /\ liveBefore = live
    /\ ops = 0
    /\ NsIdle
    /\ TmIdle
    /\ DialReady

----------------------------------------------------------------------------
(* AutoMigrate, one action for each question or statement it sends *)

Cur == ReorderModels(values, TRUE)[idx]

\* the execution boundary answers, or fails
OkChoices == IF failures < MaxFailures THEN BOOLEAN ELSE {TRUE}

Ctl(p, i, r) == [pc |-> p, idx |-> i, result |-> r]

\* the next entity, or "return nil"
AdvanceCtl ==
    IF idx < Len(ReorderModels(values, TRUE))
    THEN Ctl("HasTable", idx + 1, "none")
    ELSE Ctl("idle", idx, "nil")

\* the error kept for later and the loop going on with the next entity
ReturnCtl_NextEntity ==
    IF idx < Len(ReorderModels(values, TRUE))
    THEN Ctl("HasTable", idx + 1, "none")
    ELSE Ctl("idle", idx, "err")

\* "return err"
ReturnCtl == Ctl("idle", idx, "err")

SetCtl(c) == pc' = c.pc /\ idx' = c.idx /\ result' = c.result

AllOk(events) == \A i \in 1..Len(events) : events[i].ok

\* AutoMigrate is called
BeginPass ==
    /\ pc = "idle"
    /\ pass < MaxPasses
    /\ pass' = pass + 1
    /\ prevClean' = (result = "nil" /\ AllOk(log))
    /\ log' = <<>>
    /\ SetCtl(Ctl("HasTable", 1, "none"))
    /\ columnTypes' = [table |-> <<>>, cols |-> <<>>]
    /\ fieldsLeft' = {}
    /\ relsLeft' = {}
    /\ chksLeft' = {}
    /\ liveBefore' = live
    /\ UNCHANGED <<values, disableFK, reportStyle, live, failures, ops, sideVars>>

\* tx.Migrator().HasTable(value)
HasTableStep ==
    /\ pc = "HasTable"
    /\ \E ok \in OkChoices :
          LET has == HasTable(live, Cur, ok)
          IN  /\ log' = Append(log, Query("HasTable", Cur.Table, <<>>, ok, has))
              /\ pc' = NextAfterHasTable(has)
              /\ failures' = failures + (IF ok THEN 0 ELSE 1)
    /\ UNCHANGED <<values, disableFK, reportStyle, liveBefore, live, idx, columnTypes, fieldsLeft, relsLeft,
                   chksLeft, result, pass, prevClean, ops, sideVars>>

\* tx.Migrator().CreateTable(value)
CreateTableStep ==
    /\ pc = "CreateTable"
    /\ \E ok \in OkChoices :
          LET stmt == CreateTable(Cur, disableFK)
          IN  /\ log' = log \o <<Call("CreateTable", Cur.Table, <<>>),
                                 Exec("CREATE TABLE IF NOT EXISTS", Cur.Table, <<>>, <<>>, ok)>>
              /\ live' = IF ok THEN ExecCreateTable(live, stmt, reportStyle) ELSE live
              /\ SetCtl(IF ReturnsOn(ok) THEN ReturnCtl ELSE AdvanceCtl)
              /\ failures' = failures + (IF ok THEN 0 ELSE 1)
    /\ UNCHANGED <<values, disableFK, reportStyle, liveBefore, columnTypes, fieldsLeft, relsLeft, chksLeft,
                   pass, prevClean, ops, sideVars>>

\* the control after the field loop: the relationship loop, or the next entity
AfterFieldsCtl == IF Cur.Relations = {} THEN AdvanceCtl ELSE Ctl("Rels", idx, "none")

\* m.DB.Migrator().ColumnTypes(value)
ColumnTypesStep ==
    /\ pc = "ColumnTypes"
    /\ \E ok \in OkChoices :
          /\ log' = Append(log, Query("ColumnTypes", Cur.Table, <<>>, ok, ok))
          /\ failures' = failures + (IF ok THEN 0 ELSE 1)
          /\ IF ReturnsOn(ok)
             THEN /\ SetCtl(ReturnCtl)
                  /\ UNCHANGED <<columnTypes, fieldsLeft, relsLeft>>
             ELSE /\ columnTypes' = [table |-> Cur.Table,
                                     cols |-> ColumnTypes(live[Cur.Table].columns)]
                  /\ fieldsLeft' = DOMAIN Cur.FieldsByDBName
                  /\ relsLeft' = Cur.Relations
                  /\ SetCtl(IF DOMAIN Cur.FieldsByDBName = {}
                            THEN AfterFieldsCtl ELSE Ctl("Fields", idx, "none"))
    /\ UNCHANGED <<values, disableFK, reportStyle, liveBefore, live, chksLeft, pass, prevClean, ops, sideVars>>

\* the field loop, a field with no live column: tx.Migrator().AddColumn
AddColumnStep ==
    /\ pc = "Fields"
    /\ \E n \in fieldsLeft, ok \in OkChoices :
          LET field == Cur.FieldsByDBName[n]
              foundColumn == FindColumn(columnTypes.cols, field)
              stmt == AddColumn(Cur, field.DBName)
          IN  /\ foundColumn = Nil
              /\ log' = log \o <<Call("AddColumn", Cur.Table, n),
                                 Exec("ADD COLUMN", Cur.Table, n, <<>>, ok)>>
              /\ live' = IF ok THEN ExecAddColumn(live, stmt, reportStyle) ELSE live
              /\ fieldsLeft' = fieldsLeft \ {n}
              /\ failures' = failures + (IF ok THEN 0 ELSE 1)
              /\ SetCtl(IF ReturnsOn(ok) THEN ReturnCtl
                        ELSE IF fieldsLeft \ {n} = {} THEN AfterFieldsCtl
                        ELSE Ctl("Fields", idx, "none"))
    /\ UNCHANGED <<values, disableFK, reportStyle, liveBefore, columnTypes, relsLeft, chksLeft, pass,
                   prevClean, ops, sideVars>>

\* the field loop, a field with a live column: m.DB.Migrator().MigrateColumn
MigrateColumnStep ==
    /\ pc = "Fields"
    /\ \E n \in fieldsLeft, ok \in OkChoices :
          LET field == Cur.FieldsByDBName[n]
              foundColumn == FindColumn(columnTypes.cols, field)
              clauses == MigrateColumn(field, foundColumn)
              stmt == [table |-> Cur.Table, name |-> field.DBName,
                       clauses |-> clauses, type |-> DataTypeOf(field)]
              sent == clauses # <<>>
          IN  /\ foundColumn # Nil
              /\ sent \/ ok
              /\ log' = log \o <<Call("MigrateColumn", Cur.Table, n)>>
                            \o (IF sent
                                THEN <<Exec("ALTER COLUMN", Cur.Table, n, clauses, ok)>>
                                ELSE <<>>)
              /\ live' = IF sent /\ ok THEN ExecAlterColumn(live, stmt, reportStyle) ELSE live
              /\ fieldsLeft' = fieldsLeft \ {n}
              /\ failures' = failures + (IF ok THEN 0 ELSE 1)
              /\ SetCtl(IF ReturnsOn(ok) THEN ReturnCtl
                        ELSE IF fieldsLeft \ {n} = {} THEN AfterFieldsCtl
                        ELSE Ctl("Fields", idx, "none"))
    /\ UNCHANGED <<values, disableFK, reportStyle, liveBefore, columnTypes, relsLeft, chksLeft, pass,
                   prevClean, ops, sideVars>>

\* the control after the body of the relationship loop
AfterRelCtl(left) == IF left = {} THEN AdvanceCtl ELSE Ctl("Rels", idx, "none")

\* the relationship loop: the foreign key of one relationship, then the
\* inner loop over the check constraints
RelStep ==
    /\ pc = "Rels"
    /\ \E r \in relsLeft, qok \in OkChoices, xok \in OkChoices :
          LET guarded == ~disableFK /\ r.HasConstraint /\ r.Own
              res == IF guarded
                     THEN EnsureConstraint(live, Cur, r.Name, qok, xok)
                     ELSE [events |-> <<>>, live |-> live, sent |-> 0, err |-> FALSE]
              nfail == (IF qok THEN 0 ELSE 1) + (IF xok THEN 0 ELSE 1)
          IN  /\ guarded \/ qok
              /\ res.sent > 0 \/ xok
              /\ failures + nfail <= MaxFailures
              /\ failures' = failures + nfail
              /\ log' = log \o res.events
              /\ live' = res.live
              /\ relsLeft' = relsLeft \ {r}
              /\ chksLeft' = Cur.Checks
              /\ SetCtl(IF res.err THEN ReturnCtl
                        ELSE IF Cur.Checks = {} THEN AfterRelCtl(relsLeft \ {r})
                        ELSE Ctl("Checks", idx, "none"))
    /\ UNCHANGED <<values, disableFK, reportStyle, liveBefore, columnTypes, fieldsLeft, pass, prevClean, ops, sideVars>>

\* the inner loop: one check constraint
ChkStep ==
    /\ pc = "Checks"
    /\ \E c \in chksLeft, qok \in OkChoices, xok \in OkChoices :
          LET res == EnsureConstraint(live, Cur, c.Name, qok, xok)
              nfail == (IF qok THEN 0 ELSE 1) + (IF xok THEN 0 ELSE 1)
          IN  /\ res.sent > 0 \/ xok
              /\ failures + nfail <= MaxFailures
              /\ failures' = failures + nfail
              /\ log' = log \o res.events
              /\ live' = res.live
              /\ chksLeft' = chksLeft \ {c}
              /\ SetCtl(IF res.err THEN ReturnCtl
                        ELSE IF chksLeft \ {c} = {} THEN AfterRelCtl(relsLeft)
                        ELSE Ctl("Checks", idx, "none"))
    /\ UNCHANGED <<values, disableFK, reportStyle, liveBefore, columnTypes, fieldsLeft, relsLeft, pass,
                   prevClean, ops, sideVars>>

Next ==
    \/ BeginPass
    \/ HasTableStep
    \/ CreateTableStep
    \/ ColumnTypesStep
    \/ AddColumnStep
    \/ MigrateColumnStep
    \/ RelStep
    \/ ChkStep

Spec == Init /\ [][Next]_vars

----------------------------------------------------------------------------
(* The migrator's operations called directly *)

\* what an operation returns and the statement it sends, if any
OpResult(ret, stmts) == [ret |-> ret, stmts |-> stmts]

Statement(op, table, name, to) == [op |-> op, table |-> table, name |-> name, to |-> to]

\* a rename sent to the warehouse
RenameColumn_AlterTableRename(e, oldName, newName) ==
    OpResult("nil", <<Statement("RENAME COLUMN", e.Table, oldName, newName)>>)

\* Migrator.RenameColumn
RenameColumn(e, oldName, newName) == OpResult("RENAME COLUMN UNSUPPORTED", <<>>)

\* Migrator.HasIndex
HasIndex(e, name) == OpResult("true", <<>>)

\* Migrator.RenameIndex
RenameIndex(e, oldName, newName) == OpResult("nil", <<>>)

\* an index created in the warehouse
CreateIndex_SendsCreateIndex(e, name) ==
    OpResult("nil", <<Statement("CREATE INDEX", e.Table, name, <<>>)>>)

\* Migrator.CreateIndex
CreateIndex(e, name) == OpResult("nil", <<>>)

\* Migrator.DropIndex
DropIndex(e, name) == OpResult("nil", <<>>)

\* the warehouse executing a statement of a direct operation
ExecDirect(lv, stmt) ==
    CASE stmt.op = "DROP TABLE IF EXISTS" -> [lv EXCEPT ![stmt.table] = NoTable]
      [] stmt.op = "RENAME COLUMN" /\ lv[stmt.table].exists ->
            [lv EXCEPT ![stmt.table].columns =
                [i \in 1..Len(@) |->
                    IF normalizeName(@[i].Name) = normalizeName(stmt.name)
                    THEN [@[i] EXCEPT !.Name = StoredName(stmt.to)] ELSE @[i]]]
      [] OTHER -> lv

\* the entities the operations are called on
Entities == {values[i] : i \in 1..Len(values)}

ColumnArgs == {<<"n","a","m","e">>}
NewNameArgs == {<<"t","i","t","l","e">>}
IndexArgs(e) == {IndexName(e.Table, <<"n","a","m","e">>)}

\* the migrator is idle and may be called
Ready == pc = "ready" /\ ops < MaxOps

\* a call that returns after sending what it sends
Invoke(op, e, name, res) ==
    /\ log' = log \o <<Call(op, e.Table, name)>>
                  \o [i \in 1..Len(res.stmts) |->
                        Exec(res.stmts[i].op, res.stmts[i].table, res.stmts[i].name, <<>>, TRUE)]
    /\ live' = IF res.stmts = <<>> THEN live ELSE ExecDirect(live, res.stmts[1])
    /\ result' = res.ret
    /\ ops' = ops + 1
    /\ UNCHANGED <<values, disableFK, reportStyle, liveBefore, pc, idx, columnTypes,
                   fieldsLeft, relsLeft, chksLeft, pass, prevClean, failures, sideVars>>

RenameColumnCall ==
    /\ Ready
    /\ \E e \in Entities, oldName \in ColumnArgs, newName \in NewNameArgs :
          Invoke("RenameColumn", e, oldName, RenameColumn(e, oldName, newName))

HasIndexCall ==
    /\ Ready
    /\ \E e \in Entities : \E name \in IndexArgs(e) :
          Invoke("HasIndex", e, name, HasIndex(e, name))

RenameIndexCall ==
    /\ Ready
    /\ \E e \in Entities : \E oldName \in IndexArgs(e), newName \in NewNameArgs :
          Invoke("RenameIndex", e, oldName, RenameIndex(e, oldName, newName))

CreateIndexCall ==
    /\ Ready
    /\ \E e \in Entities : \E name \in IndexArgs(e) :
          Invoke("CreateIndex", e, name, CreateIndex(e, name))

DropIndexCall ==
    /\ Ready
    /\ \E e \in Entities : \E name \in IndexArgs(e) :
          Invoke("DropIndex", e, name, DropIndex(e, name))

\* CreateTable(values...) is called
CreateTableCall ==
    /\ Ready
    /\ log' = Append(log, Call("CreateTable", <<>>, <<>>))
    /\ SetCtl(Ctl("CreateTables", 1, "none"))
    /\ ops' = ops + 1
    /\ UNCHANGED <<values, disableFK, reportStyle, liveBefore, live, columnTypes, fieldsLeft,
                   relsLeft, chksLeft, pass, prevClean, failures, sideVars>>

\* CreateTable, one turn of its loop over ReorderModels(values, false)
CreateTableLoop ==
    /\ pc = "CreateTables"
    /\ \E ok \in OkChoices :
          LET e == ReorderModels(values, FALSE)[idx]
              stmt == CreateTable(e, disableFK)
          IN  /\ log' = Append(log, Exec("CREATE TABLE IF NOT EXISTS", e.Table, <<>>, <<>>, ok))
              /\ live' = IF ok THEN ExecCreateTable(live, stmt, reportStyle) ELSE live
              /\ failures' = failures + (IF ok THEN 0 ELSE 1)
              /\ SetCtl(IF ~ok THEN Ctl("ready", idx, "err")
                        ELSE IF idx < Len(ReorderModels(values, FALSE))
                             THEN Ctl("CreateTables", idx + 1, "none")
                             ELSE Ctl("ready", idx, "nil"))
    /\ UNCHANGED <<values, disableFK, reportStyle, liveBefore, columnTypes, fieldsLeft,
                   relsLeft, chksLeft, pass, prevClean, ops, sideVars>>

\* DropTable(values...) is called
DropTableCall ==
    /\ Ready
    /\ log' = Append(log, Call("DropTable", <<>>, <<>>))
    /\ SetCtl(Ctl("DropTables", Len(ReorderModels(values, FALSE)), "none"))
    /\ ops' = ops + 1
    /\ UNCHANGED <<values, disableFK, reportStyle, liveBefore, live, columnTypes, fieldsLeft,
                   relsLeft, chksLeft, pass, prevClean, failures, sideVars>>

\* DropTable, one turn of its loop, from the last of ReorderModels(values,
\* false) to the first
DropTableLoop ==
    /\ pc = "DropTables"
    /\ \E ok \in OkChoices :
          LET e == ReorderModels(values, FALSE)[idx]
              stmt == Statement("DROP TABLE IF EXISTS", e.Table, <<>>, <<>>)
          IN  /\ log' = Append(log, Exec("DROP TABLE IF EXISTS", e.Table, <<>>, <<>>, ok))
              /\ live' = IF ok THEN ExecDirect(live, stmt) ELSE live
              /\ failures' = failures + (IF ok THEN 0 ELSE 1)
              /\ SetCtl(IF ~ok THEN Ctl("ready", idx, "err")
                        ELSE IF idx - 1 >= 1
                             THEN Ctl("DropTables", idx - 1, "none")
                             ELSE Ctl("ready", idx, "nil"))
    /\ UNCHANGED <<values, disableFK, reportStyle, liveBefore, columnTypes, fieldsLeft,
                   relsLeft, chksLeft, pass, prevClean, ops, sideVars>>

\* the entities and the warehouse the operations start from
OpsInit ==
    /\ \E rels \in {{}, {RelUser}, {RelUser, RelItems}}, first \in {UsersTable, OrdersTable} :
          LET o == OrdersEntity(NameField(OrdersTable), rels, {})
          IN  /\ values = IF first = UsersTable THEN <<UsersEntity, o>> ELSE <<o, UsersEntity>>
              /\ \E u \in InitialUsers, ot \in {NoTable, AsCreated(o, FALSE, "declared")} :
                    live = [t \in TableNames |-> IF t = UsersTable THEN u ELSE ot]
    /\ disableFK = FALSE
    /\ reportStyle = "declared"
    /\ pc = "ready"
    /\ idx = 1
    /\ columnTypes = [table |-> <<>>, cols |-> <<>>]
    /\ fieldsLeft = {}
    /\ relsLeft = {}
    /\ chksLeft = {}
    /\ log = <<>>
    /\ result = "none"
    /\ pass = 0
    /\ prevClean = FALSE
    /\ failures = 0
    /\ liveBefore = live
    /\ ops = 0
    /\ NsIdle
    /\ TmIdle
    /\ DialReady

OpsNext ==
    \/ RenameColumnCall
    \/ HasIndexCall
    \/ RenameIndexCall
    \/ CreateIndexCall
    \/ DropIndexCall
    \/ CreateTableCall
    \/ CreateTableLoop
    \/ DropTableCall
    \/ DropTableLoop

SpecOps == OpsInit /\ [][OpsNext]_vars

----------------------------------------------------------------------------
(* Dialector.Initialize *)

SnowflakeDriverName == "snowflake"

\* sql.OpenDB: a pool over the connector
SqlOpenDB(connector) == [from |-> "Connector", of |-> connector]

\* sql.Open: a pool over the DSN, or an error
SqlOpen(driverName, dsn, ok) ==
    IF ok THEN [pool |-> [from |-> "DSN", of |-> dsn, driver |-> driverName], err |-> "nil"]
    ELSE [pool |-> Nil, err |-> "sql.Open"]

PoolResult(pool, err, opened) == [pool |-> pool, err |-> err, opened |-> opened]

\* the sources tried from the DSN to the supplied pool
createConnectionPool_DSNFirst(d, ok) ==
    IF d.DSN # ""
    THEN LET r == SqlOpen(d.DriverName, d.DSN, ok)
         IN  IF r.err # "nil"
             THEN PoolResult(Nil, "failed to open DSN connection", <<"sql.Open">>)
             ELSE PoolResult(r.pool, "nil", <<"sql.Open">>)
    ELSE IF d.Connector # Nil
         THEN PoolResult(SqlOpenDB(d.Connector), "nil", <<"sql.OpenDB">>)
         ELSE IF d.Conn # Nil
              THEN PoolResult(d.Conn, "nil", <<>>)
              ELSE PoolResult(Nil, "no connection information provided", <<>>)

\* Dialector.createConnectionPool
createConnectionPool(d, ok) ==
    IF d.Conn # Nil
    THEN PoolResult(d.Conn, "nil", <<>>)
    ELSE IF d.Connector # Nil
         THEN LET connPool == SqlOpenDB(d.Connector)
              IN  IF connPool = Nil
                  THEN PoolResult(Nil, "failed to create connection pool", <<"sql.OpenDB">>)
                  ELSE PoolResult(connPool, "nil", <<"sql.OpenDB">>)
         ELSE IF d.DSN # ""
              THEN LET r == SqlOpen(d.DriverName, d.DSN, ok)
                   IN  IF r.err # "nil"
                       THEN PoolResult(Nil, "failed to open DSN connection", <<"sql.Open">>)
                       ELSE PoolResult(r.pool, "nil", <<"sql.Open">>)
              ELSE PoolResult(Nil, "no connection information provided", <<>>)

\* the Configs Initialize is called with
ConnChoices == {Nil, [from |-> "Conn", of |-> "pool1"], [from |-> "Conn", of |-> "pool2"]}
ConnectorChoices == {Nil, [auth |-> "keypair"], [auth |-> "password"]}
DSNChoices == {"", "user:pw@account/db", "user@other/db"}
DriverNameChoices == {"", "snowflake", "other"}

\* Dialector.Initialize
Initialize ==
    /\ pc = "new"
    /\ \E ok \in BOOLEAN :
          LET d == [dialector EXCEPT !.DriverName = SnowflakeDriverName]
              r == createConnectionPool(d, ok)
          IN  /\ ok \/ r.opened = <<"sql.Open">>
              /\ dialector' = d
              /\ db' = IF r.err # "nil"
                        THEN [db EXCEPT !.opened = r.opened, !.err = r.err]
                        ELSE [ConnPool |-> r.pool, opened |-> r.opened, err |-> "nil"]
              /\ pc' = "initialized"
    /\ UNCHANGED <<values, disableFK, reportStyle, liveBefore, live, idx, columnTypes,
                   fieldsLeft, relsLeft, chksLeft, log, result, pass, prevClean, failures,
                   ops, nsVars, tmVars>>

DialInit ==
    /\ dialector \in [DriverName : DriverNameChoices, DSN : DSNChoices,
                       Conn : ConnChoices, Connector : ConnectorChoices]
    /\ db = [ConnPool |-> Nil, opened |-> <<>>, err |-> "none"]
    /\ values = <<>>
    /\ disableFK = FALSE
    /\ reportStyle = "declared"
    /\ live = [t \in TableNames |-> NoTable]
    /\ liveBefore = live
    /\ pc = "new"
    /\ idx = 1
    /\ columnTypes = [table |-> <<>>, cols |-> <<>>]
    /\ fieldsLeft = {}
    /\ relsLeft = {}
    /\ chksLeft = {}
    /\ log = <<>>
    /\ result = "none"
    /\ pass = 0
    /\ prevClean = FALSE
    /\ failures = 0
    /\ ops = 0
    /\ NsIdle
    /\ TmIdle

DialNext == Initialize

SpecDial == DialInit /\ [][DialNext]_vars

----------------------------------------------------------------------------
(* The naming strategy applied to candidate names *)

(***************************************************************************)
(* FullDataTypeOf and DefaultValueOf called on one field.  The fields are  *)
(* those the schema parser builds from a default tag: a bool, int or float *)
(* field carries the parsed value, a string field its text unless the text *)
(* holds a call, a time field only the text.                               *)
(***************************************************************************)
Parsed(kind, text) == [kind |-> kind, text |-> text]

NoTag == [has |-> FALSE, text |-> <<>>, value |-> Nil]

Tag(text, value) == [has |-> TRUE, text |-> text, value |-> value]

DefaultTags(dataType) ==
    CASE dataType = "bool" ->
            {NoTag, Tag(<<"t","r","u","e">>, Parsed("bool", <<"t","r","u","e">>)), Tag(<<"F","A","L","S","E">>, Parsed("bool", <<"f","a","l","s","e">>))}
      [] dataType = "int" ->
            {NoTag, Tag(<<"4","2">>, Parsed("int", <<"4","2">>)), Tag(<<"-","1">>, Parsed("int", <<"-","1">>))}
      [] dataType = "float" ->
            {NoTag, Tag(<<"3",".","1","4">>, Parsed("float", <<"3",".","1","4">>))}
      [] dataType = "string" ->
            {NoTag, Tag(<<"n","e","w">>, Parsed("string", <<"n","e","w">>)), Tag(<<"4","2">>, Parsed("string", <<"4","2">>)),
             Tag(<<"t","r","u","e">>, Parsed("string", <<"t","r","u","e">>)),
             Tag(<<"I","D","E","N","T","I","T","Y">>, Parsed("string", <<"I","D","E","N","T","I","T","Y">>)),
             Tag(<<"u","u","i","d","(",")">>, Nil), Tag(SkipDefaultMarker, Nil)}
      [] dataType = "time" ->
            {NoTag, Tag(<<"C","U","R","R","E","N","T","_","T","I","M","E","S","T","A","M","P">>, Nil), Tag(<<"c","u","r","r","e","n","t","_","t","i","m","e","s","t","a","m","p">>, Nil),
             Tag(<<"n","o","w">>, Nil), Tag(<<"n","o","w","(",")">>, Nil)}
      [] OTHER -> {NoTag}

TmDataTypes == {"bool", "int", "float", "string", "time", "bytes"}

TmField(dataType, notNull, unique, autoIncrement, tag) ==
    [Field(<<"u","s","e","r","s">>, <<"c">>, dataType, 0, notNull, FALSE, autoIncrement, FALSE)
        EXCEPT !.Unique = unique,
               !.HasDefaultValue = tag.has \/ autoIncrement,
               !.DefaultValue = tag.text,
               !.DefaultValueInterface = tag.value]

TmFields ==
    {TmField(t, n, u, FALSE, tag) :
        <<t, n, u, tag>> \in {q \in TmDataTypes \X BOOLEAN \X BOOLEAN \X UNION {DefaultTags(d) : d \in TmDataTypes} :
                                q[4] \in DefaultTags(q[1])}}
    \cup {TmField("int", n, FALSE, TRUE, NoTag) : n \in BOOLEAN}

TmOps == {"FullDataTypeOf", "DefaultValueOf"}

CallFullDataTypeOf ==
    /\ tmIn.op = "FullDataTypeOf"
    /\ tmOut = <<>>
    /\ tmOut' = <<FullDataTypeOf(tmIn.field)>>
    /\ UNCHANGED <<migVars, nsVars, tmIn, dialVars>>

CallDefaultValueOf ==
    /\ tmIn.op = "DefaultValueOf"
    /\ tmOut = <<>>
    /\ tmOut' = <<DefaultValueOf(tmIn.field)>>
    /\ UNCHANGED <<migVars, nsVars, tmIn, dialVars>>

TypesInit ==
    /\ tmIn \in [op : TmOps, field : TmFields]
    /\ tmOut = <<>>
    /\ values = <<>>
    /\ disableFK = FALSE
    /\ reportStyle = "declared"
    /\ live = [t \in TableNames |-> NoTable]
    /\ liveBefore = live
    /\ pc = "types"
    /\ idx = 1
    /\ columnTypes = [table |-> <<>>, cols |-> <<>>]
    /\ fieldsLeft = {}
    /\ relsLeft = {}
    /\ chksLeft = {}
    /\ log = <<>>
    /\ result = "none"
    /\ pass = 0
    /\ prevClean = FALSE
    /\ failures = 0
    /\ ops = 0
    /\ NsIdle
    /\ DialReady

TypesNext ==
    \/ CallFullDataTypeOf
    \/ CallDefaultValueOf

SpecTypes == TypesInit /\ [][TypesNext]_vars

NamesInit ==
    /\ values = <<>>
    /\ disableFK = FALSE
    /\ live = [t \in TableNames |-> NoTable]
    /\ pc = "names"
    /\ idx = 1
    /\ columnTypes = [table |-> <<>>, cols |-> <<>>]
    /\ fieldsLeft = {}
    /\ relsLeft = {}
    /\ chksLeft = {}
    /\ log = <<>>
    /\ result = "none"
    /\ pass = 0
    /\ prevClean = FALSE
    /\ failures = 0
    /\ reportStyle = "declared"
    /\ liveBefore = live
    /\ ops = 0
    /\ NsInit
    /\ TmIdle
    /\ DialReady

NamesNext ==
    \/ CallUniqueName /\ UNCHANGED <<migVars, tmVars, dialVars>>
    \/ CallRelationshipFKName /\ UNCHANGED <<migVars, tmVars, dialVars>>
    \/ CallCheckerName /\ UNCHANGED <<migVars, tmVars, dialVars>>
    \/ CallIndexName /\ UNCHANGED <<migVars, tmVars, dialVars>>
    \/ CallColumnName /\ UNCHANGED <<migVars, tmVars, dialVars>>

SpecNames == NamesInit /\ [][NamesNext]_vars

----------------------------------------------------------------------------
(* What the properties read off a state *)

\* the positions of the log that hold an event of this kind and operation
\* on this table and name
Positions(kind, op, table, name) ==
    {i \in 1..Len(log) : /\ log[i].kind = kind /\ log[i].op = op
                         /\ log[i].table = table /\ log[i].name = name}

\* the positions that hold a statement sent to the warehouse
ExecPositions == {i \in 1..Len(log) : log[i].kind = "exec"}

\* the number of times a clause stands in the ALTER COLUMN statements sent
\* for a column
ClauseCount(table, name, clause) ==
    Cardinality({<<i, k>> \in (1..Len(log)) \X (1..4) :
                    /\ i \in Positions("exec", "ALTER COLUMN", table, name)
                    /\ k <= Len(log[i].clauses)
                    /\ log[i].clauses[k] = clause})

EntityOf(table) ==
    CHOOSE e \in {values[i] : i \in 1..Len(values)} : e.Table = table

\* the entity whose columns were fetched last is being diffed, or was
Diffing == columnTypes.table # <<>>

DiffEntity == EntityOf(columnTypes.table)

\* the fields of that entity the field loop has visited
Visited == DOMAIN DiffEntity.FieldsByDBName \ fieldsLeft

\* the fetched live columns whose name is the field's, case and quotes aside
Matches(n) ==
    {i \in 1..Len(columnTypes.cols) :
        ToUpper(Trim(columnTypes.cols[i].c.Name, QuoteChar)) = ToUpper(Trim(n, QuoteChar))}

\* the live column a visited field was compared with
MatchOf(n) == columnTypes.cols[CHOOSE i \in Matches(n) : \A j \in Matches(n) : i <= j].c

----------------------------------------------------------------------------
(* Properties *)

\* C1: a second pass over the same desired entities, after a first pass
\* that returned nil with no failed query or statement and with no failure
\* since, sends no DDL statement to the warehouse (stated for a warehouse
\* that reports every column under the type name it was declared with).
C1_SecondPassSendsNoDDL ==
    (pass >= 2 /\ prevClean /\ failures = 0 /\ reportStyle = "declared")
        => ExecPositions = {}

\* C2: an entity the existence check reports absent gets table creation
\* invoked exactly once, with one CREATE TABLE IF NOT EXISTS statement, and
\* no add-column, migrate-column or other ALTER in that pass; an entity
\* reported present never gets table creation invoked.
C2_CreatePath ==
    \A i \in 1..Len(log) :
        (log[i].kind = "query" /\ log[i].op = "HasTable") =>
            LET t == log[i].table
                creates == Positions("call", "CreateTable", t, <<>>)
                stmts == Positions("exec", "CREATE TABLE IF NOT EXISTS", t, <<>>)
                others == {j \in 1..Len(log) :
                              /\ log[j].table = t
                              /\ log[j].op \in {"AddColumn", "MigrateColumn", "CreateConstraint",
                                                "ColumnTypes", "ADD COLUMN", "ALTER COLUMN",
                                                "ADD CONSTRAINT"}}
            IN  IF ~log[i].answer
                THEN /\ others = {}
                     /\ Cardinality(creates) = (IF i < Len(log) THEN 1 ELSE 0)
                     /\ Cardinality(stmts) = Cardinality(creates)
                     /\ \A j \in creates \cup stmts : j > i
                ELSE creates = {} /\ stmts = {}

\* C2 witness: an entity reported absent has had its table created, and
\* another entity of the same pass was reported present
C2_Witness ==
    /\ \E i, j \in 1..Len(log) :
          /\ log[i].kind = "query" /\ log[i].op = "HasTable" /\ ~log[i].answer
          /\ j > i /\ log[j].op = "CREATE TABLE IF NOT EXISTS" /\ log[j].table = log[i].table
    /\ \E i \in 1..Len(log) :
          log[i].kind = "query" /\ log[i].op = "HasTable" /\ log[i].answer

\* C3: in the diff of an existing table every visited field with no live
\* column of its case-normalised name got exactly one add-column operation
\* and no migrate-column operation, every other visited field got no
\* add-column operation, and the add-column operations number the visited
\* missing fields.
C3_AddColumnPath ==
    Diffing =>
        LET t == columnTypes.table
            adds(n) == Cardinality(Positions("call", "AddColumn", t, n))
            migs(n) == Cardinality(Positions("call", "MigrateColumn", t, n))
            missing == {n \in Visited : Matches(n) = {}}
            allAdds == {i \in 1..Len(log) : /\ log[i].kind = "call"
                                            /\ log[i].op = "AddColumn"
                                            /\ log[i].table = t}
            allMigs == {i \in 1..Len(log) : /\ log[i].kind = "call"
                                            /\ log[i].op = "MigrateColumn"
                                            /\ log[i].table = t}
        IN  /\ \A n \in missing : adds(n) = 1 /\ migs(n) = 0
            /\ \A n \in Visited \ missing : adds(n) = 0 /\ migs(n) = 1
            /\ \A n \in fieldsLeft : adds(n) = 0 /\ migs(n) = 0
            /\ Cardinality(allAdds) = Cardinality(missing)
            /\ (columnTypes.cols = <<>> => allMigs = {})

\* C3 witness: the live column list was empty, both desired fields were
\* visited and two add-column operations were issued
C3_Witness ==
    /\ Diffing
    /\ columnTypes.cols = <<>>
    /\ fieldsLeft = {}
    /\ Cardinality(Visited) = 2
    /\ Cardinality({i \in 1..Len(log) : log[i].kind = "call" /\ log[i].op = "AddColumn"}) = 2
    /\ result = "nil"

\* C4: a failed introspection query is the last thing the pass does: no
\* query is repeated, no statement on the table follows it, and the pass
\* returns the failure.
C4_IntrospectionFailureSurfaces ==
    \A i \in 1..Len(log) :
        (log[i].kind = "query" /\ ~log[i].ok) =>
            /\ \A j \in 1..Len(log) :
                  (j > i /\ log[j].table = log[i].table) => log[j].kind # "exec"
            /\ \A j \in 1..Len(log) :
                  (j > i /\ log[j].kind = "query") =>
                      <<log[j].op, log[j].table, log[j].name>>
                          # <<log[i].op, log[i].table, log[i].name>>
            /\ (pc = "idle" => result = "err")

\* C5: a failed DDL statement is the last thing the pass does (no further
\* statement, no compensating statement), and the pass returns an error.
C5_DDLFailureAborts ==
    \A i \in 1..Len(log) :
        (log[i].kind = "exec" /\ ~log[i].ok) =>
            /\ i = Len(log)
            /\ pc = "idle"
            /\ result = "err"

\* C5 witness: a statement failed after an earlier statement of the same
\* pass had succeeded
C5_Witness ==
    \E i, j \in 1..Len(log) :
        /\ i < j
        /\ log[i].kind = "exec" /\ log[i].ok
        /\ log[j].kind = "exec" /\ ~log[j].ok
        /\ result = "err"

\* C6: in the diff of an existing entity, a foreign key of the entity's own
\* whose name the constraint check reports absent gets one ALTER TABLE ...
\* ADD CONSTRAINT statement; one reported present gets none.
C6_ForeignKeyAdded ==
    \A i \in 1..Len(log) :
        (/\ log[i].kind = "query" /\ log[i].op = "HasConstraint" /\ log[i].ok
         /\ ~disableFK
         /\ \E r \in EntityOf(log[i].table).Relations :
                r.HasConstraint /\ r.Own /\ r.Name = log[i].name) =>
            LET adds == Positions("exec", "ADD CONSTRAINT", log[i].table, log[i].name)
            IN  IF log[i].answer THEN adds = {} ELSE Cardinality(adds) = 1

\* the diff of this table has run to its end in this pass, no query or
\* statement having failed
DiffDone(t) ==
    /\ AllOk(log)
    /\ \E i \in 1..Len(log) :
          /\ log[i].kind = "query" /\ log[i].op = "ColumnTypes" /\ log[i].table = t
          /\ \/ pc = "idle" /\ result = "nil"
             \/ \E j \in 1..Len(log) : j > i /\ log[j].op = "HasTable"

\* C7: once the diff of an existing entity is done, each of its check
\* constraints had its existence checked once, and got one ALTER TABLE ...
\* ADD CONSTRAINT statement if it was reported absent, none otherwise,
\* however many relationships the entity has.
C7_CheckConstraintsAdded ==
    \A t \in TableNames :
        DiffDone(t) =>
            \A c \in EntityOf(t).Checks :
                LET asked == Positions("query", "HasConstraint", t, c.Name)
                    adds == Positions("exec", "ADD CONSTRAINT", t, c.Name)
                IN  /\ Cardinality(asked) = 1
                    /\ \A i \in asked :
                          IF log[i].answer THEN adds = {} ELSE Cardinality(adds) = 1

\* C8: a visited field matched to a live column, not auto-increment: a
\* primary key gets no nullability clause; otherwise NOT NULL against a
\* column reported nullable gets SET NOT NULL once, nullable against a
\* column reported non-nullable gets DROP NOT NULL once, and agreement
\* gets neither.
C8_Nullability ==
    Diffing =>
        \A n \in Visited :
            LET f == DiffEntity.FieldsByDBName[n]
                t == columnTypes.table
                setNN == ClauseCount(t, n, "SET NOT NULL")
                dropNN == ClauseCount(t, n, "DROP NOT NULL")
            IN  (Matches(n) # {} /\ ~f.AutoIncrement) =>
                    LET col == MatchOf(n)
                    IN  /\ f.PrimaryKey => (setNN = 0 /\ dropNN = 0)
                        /\ (~f.PrimaryKey /\ col.NullableOk /\ f.NotNull /\ col.Nullable)
                              => (setNN = 1 /\ dropNN = 0)
                        /\ (~f.PrimaryKey /\ col.NullableOk /\ ~f.NotNull /\ ~col.Nullable)
                              => (setNN = 0 /\ dropNN = 1)
                        /\ (~f.PrimaryKey /\ col.NullableOk /\ f.NotNull = ~col.Nullable)
                              => (setNN = 0 /\ dropNN = 0)

\* C8 witness: a NOT NULL field that is no primary key was compared with a
\* column reported nullable, and SET NOT NULL was sent once
C8_Witness ==
    /\ Diffing
    /\ \E n \in Visited :
          /\ Matches(n) # {}
          /\ ~DiffEntity.FieldsByDBName[n].AutoIncrement
          /\ ~DiffEntity.FieldsByDBName[n].PrimaryKey
          /\ DiffEntity.FieldsByDBName[n].NotNull
          /\ MatchOf(n).NullableOk /\ MatchOf(n).Nullable
          /\ ClauseCount(columnTypes.table, n, "SET NOT NULL") = 1

\* C9: a visited String field matched to a live column of the textual
\* family (TEXT or VARCHAR) gets SET DATA TYPE only when a declared size
\* differs from a reported length; with no declared size, or with the
\* declared size equal to the reported length, and equal nullability, it
\* gets no ALTER statement at all.
C9_TextFamilyNoMismatch ==
    Diffing =>
        \A n \in Visited :
            LET f == DiffEntity.FieldsByDBName[n]
                t == columnTypes.table
                alters == Positions("exec", "ALTER COLUMN", t, n)
            IN  (Matches(n) # {} /\ f.DataType = "string" /\ ~f.AutoIncrement
                 /\ TypeToUpper(MatchOf(n).RawType) \in {"TEXT", "VARCHAR"}) =>
                    LET col == MatchOf(n)
                        lengthDiffers == col.LengthOk /\ f.Size > 0 /\ f.Size # col.Length
                        sameNull == f.NotNull = ~col.Nullable
                    IN  /\ ClauseCount(t, n, "SET DATA TYPE") > 0 => lengthDiffers
                        /\ (f.Size = 0 /\ sameNull) => alters = {}
                        /\ (f.Size > 0 /\ col.LengthOk /\ col.Length = f.Size /\ sameNull)
                              => alters = {}

\* C9 witness: a String field with no declared size was compared with a
\* live VARCHAR column of length 100 and the same nullability, and nothing
\* was sent for it
C9_Witness ==
    /\ Diffing
    /\ \E n \in Visited :
          /\ Matches(n) # {}
          /\ DiffEntity.FieldsByDBName[n].DataType = "string"
          /\ DiffEntity.FieldsByDBName[n].Size = 0
          /\ MatchOf(n).RawType = "VARCHAR"
          /\ MatchOf(n).LengthOk /\ MatchOf(n).Length = 100
          /\ DiffEntity.FieldsByDBName[n].NotNull = ~MatchOf(n).Nullable
          /\ Positions("call", "MigrateColumn", columnTypes.table, n) # {}
          /\ Positions("exec", "ALTER COLUMN", columnTypes.table, n) = {}

\* the candidate name a naming operation hands to the truncate-with-hash path
Candidate(in) ==
    CASE in.op = "UniqueName" -> in.table \o <<"_">> \o in.column
      [] in.op = "RelationshipFKName" -> <<"f","k","_">> \o in.table \o <<"_">> \o in.column
      [] in.op = "CheckerName" -> <<"c","h","k","_">> \o in.table \o <<"_">> \o in.column
      [] in.op = "IndexName" -> <<"i","d","x","_">> \o in.table \o <<"_">> \o in.column
      [] OTHER -> <<>>

\* C10: every name UniqueName, RelationshipFKName, CheckerName and
\* IndexName return is at most 255 characters long, and a name that was
\* truncated keeps at least one character before the separator and digest.
C10_LengthBound ==
    nsOut # <<>> =>
        /\ Len(nsOut) <= 255
        /\ Len(Candidate(nsIn)) > 255 => Len(nsOut) - 1 - 16 >= 1

\* C10 witness: a candidate longer than 255 characters was named
C10_Witness ==
    /\ nsOut # <<>>
    /\ nsIn.op = "UniqueName"
    /\ Len(Candidate(nsIn)) > 255
    /\ Len(nsOut) = 255

\* C11: a candidate name of at most 255 characters comes back from the
\* truncate-with-hash path as its upper-case spelling, nothing appended,
\* the length 255 included; UniqueName("agents", "id") is AGENTS_ID.
C11_IdentityBelowLimit ==
    (nsOut # <<>> /\ nsIn.op \in NsOps) =>
        /\ Len(Candidate(nsIn)) <= 255 => nsOut = ToUpper(Candidate(nsIn))
        /\ (nsIn.op = "UniqueName" /\ Len(nsIn.table) + 1 + Len(nsIn.column) <= 255)
              => nsOut = ToUpper(nsIn.table \o <<"_">> \o nsIn.column)
        /\ (nsIn.op = "UniqueName" /\ nsIn.table = <<"a","g","e","n","t","s">>
             /\ nsIn.column = <<"i","d">>)
              => nsOut = <<"A","G","E","N","T","S","_","I","D">>

\* C11 witness: UniqueName was given a lower-case table and a column that
\* make a candidate of exactly 255 characters, and returned 255 characters
C11_Witness ==
    /\ nsOut # <<>>
    /\ nsIn.op = "UniqueName"
    /\ nsIn.table[1] = "t"
    /\ Len(nsIn.table) + 1 + Len(nsIn.column) = 255
    /\ Len(nsOut) = 255
    /\ nsOut[1] = "T"

\* the characters of a hexadecimal digest
IsHex(s) == \A i \in 1..Len(s) : \E k \in 1..16 : HexDigits[k] = s[i]

Quoted(name) == <<"\"">> \o name \o <<"\"">>

HasQuote(name) == \E i \in 1..Len(name) : name[i] = "\""

\* C13: ColumnName returns the upper-case column name (the name the wrapped
\* default strategy makes of the field name, upper-cased) between
\* identifier quotes exactly when that name is ORDER or LOCALITY, and bare,
\* with no quote character, otherwise: created_at gives CREATED_AT, user
\* gives USER, email gives EMAIL.
C13_ReservedWordQuoting ==
    (nsOut # <<>> /\ nsIn.op = "ColumnName") =>
        LET up == ToUpper(DefaultColumnName(nsIn.table, nsIn.column))
            reserved == up \in {<<"O","R","D","E","R">>, <<"L","O","C","A","L","I","T","Y">>}
        IN  /\ reserved => nsOut = Quoted(up)
            /\ ~reserved => (nsOut = up /\ ~HasQuote(nsOut))
            /\ nsIn.column = <<"c","r","e","a","t","e","d","_","a","t">>
                  => nsOut = <<"C","R","E","A","T","E","D","_","A","T">>
            /\ nsIn.column = <<"u","s","e","r">> => nsOut = <<"U","S","E","R">>
            /\ nsIn.column = <<"e","m","a","i","l">> => nsOut = <<"E","M","A","I","L">>
            /\ nsIn.column = <<"o","r","d","e","r">> => HasQuote(nsOut)

\* C13 witness: ColumnName was given the lower-case reserved word order and
\* returned it upper-cased between quotes
C13_Witness ==
    /\ nsIn.op = "ColumnName"
    /\ nsIn.column = <<"o","r","d","e","r">>
    /\ nsOut = <<"\"","O","R","D","E","R","\"">>

\* C14: a step that calls RenameColumn, whatever the entity and the names,
\* adds the call to the log and nothing else (no statement, no query),
\* returns the unsupported-operation error and leaves the warehouse as it
\* was.
C14_RenameColumnUnsupported ==
    [][(ops' = ops + 1 /\ log'[Len(log) + 1].op = "RenameColumn") =>
          /\ log' = Append(log, log'[Len(log) + 1])
          /\ log'[Len(log) + 1].kind = "call"
          /\ result' = "RENAME COLUMN UNSUPPORTED"
          /\ live' = live]_vars

\* C14 witness: RenameColumn was called last, on a table the warehouse
\* holds with the column to rename, and returned the error
C14_Witness ==
    /\ log # <<>>
    /\ log[Len(log)].kind = "call"
    /\ log[Len(log)].op = "RenameColumn"
    /\ live[log[Len(log)].table].exists
    /\ \E i \in 1..Len(live[log[Len(log)].table].columns) :
          live[log[Len(log)].table].columns[i].Name = ToUpper(log[Len(log)].name)
    /\ result = "RENAME COLUMN UNSUPPORTED"

\* C15: a step that calls CreateIndex, RenameIndex or DropIndex adds the
\* call to the log and nothing else, returns nil and leaves the warehouse
\* as it was; a step that calls HasIndex adds the call and nothing else (no
\* query) and answers true.
C15_IndexOperationsNoOp ==
    [][(ops' = ops + 1
        /\ log'[Len(log) + 1].op \in {"HasIndex", "RenameIndex", "CreateIndex", "DropIndex"}) =>
          /\ log' = Append(log, log'[Len(log) + 1])
          /\ log'[Len(log) + 1].kind = "call"
          /\ result' = (IF log'[Len(log) + 1].op = "HasIndex" THEN "true" ELSE "nil")
          /\ live' = live]_vars

\* C15 witness: CreateIndex was called last, on an entity whose table the
\* warehouse does not hold, after an earlier operation, and returned nil
C15_Witness ==
    /\ Len(log) >= 2
    /\ log[Len(log)].kind = "call"
    /\ log[Len(log)].op = "CreateIndex"
    /\ ~live[log[Len(log)].table].exists
    /\ ops = 2
    /\ result = "nil"

\* the statements a call at position c of the log sent: the positions after
\* it and before the next call
Segment(c) == {i \in (c + 1)..Len(log) : \A k \in (c + 1)..i : log[k].kind = "exec"}

CallPositions(op) == {c \in 1..Len(log) : log[c].kind = "call" /\ log[c].op = op}

\* the call at position c sent one statement for each entity and all succeeded
Completed(c) ==
    /\ Cardinality(Segment(c)) = Len(values)
    /\ \A i \in Segment(c) : log[i].ok

\* C18: within one DropTable no entity is dropped after an entity it
\* references, within one CreateTable no entity is created before an
\* entity it references, the drops of a DropTable are the creations of a
\* CreateTable over the same entities in reverse, and a failed drop is the
\* last statement of its DropTable, which returns the error.
C18_DropReversesDependencyOrder ==
    /\ \A d \in CallPositions("DropTable") : \A i, j \in Segment(d) :
          i < j => ~DependsOn(EntityOf(log[j].table), EntityOf(log[i].table))
    /\ \A c \in CallPositions("CreateTable") : \A i, j \in Segment(c) :
          i < j => ~DependsOn(EntityOf(log[i].table), EntityOf(log[j].table))
    /\ \A c \in CallPositions("CreateTable"), d \in CallPositions("DropTable") :
          (Completed(c) /\ Completed(d)) =>
              \A m \in 1..Len(values) : log[d + m].table = log[c + Len(values) + 1 - m].table
    /\ \A d \in CallPositions("DropTable") : \A i \in Segment(d) :
          ~log[i].ok => /\ \A j \in Segment(d) : j <= i
                        /\ (i = Len(log) => (pc = "ready" /\ result = "err"))

\* the connection sources the Config holds
Available ==
    (IF dialector.Conn # Nil THEN {"Conn"} ELSE {})
    \cup (IF dialector.Connector # Nil THEN {"Connector"} ELSE {})
    \cup (IF dialector.DSN # "" THEN {"DSN"} ELSE {})

\* C16 as stated: initialization fails unless exactly one of the three
\* sources is available, and with none available it fails having opened
\* nothing.
C16_ExactlyOneSource ==
    pc = "initialized" =>
        /\ Cardinality(Available) # 1 => db.err # "nil"
        /\ Available = {} => db.opened = <<>>

\* C16 amended: initialization takes the first available source in the
\* order supplied pool, connector, DSN and ignores the others; it fails
\* with none available, having opened nothing, or when opening the DSN
\* fails; a supplied pool is used as it is, nothing being opened.
C16_FirstAvailableSource ==
    pc = "initialized" =>
        /\ Available = {} => (db.err # "nil" /\ db.opened = <<>> /\ db.ConnPool = Nil)
        /\ db.err = "nil" => Available # {}
        /\ "Conn" \in Available =>
              (db.err = "nil" /\ db.ConnPool = dialector.Conn /\ db.opened = <<>>)
        /\ ("Conn" \notin Available /\ "Connector" \in Available) =>
              /\ db.err = "nil"
              /\ db.ConnPool = [from |-> "Connector", of |-> dialector.Connector]
              /\ db.opened = <<"sql.OpenDB">>
        /\ Available = {"DSN"} =>
              /\ db.opened = <<"sql.Open">>
              /\ db.err = "nil" => (db.ConnPool.from = "DSN" /\ db.ConnPool.of = dialector.DSN)
              /\ db.err # "nil" => db.ConnPool = Nil

\* C16 witness: a supplied pool, a connector and a DSN were all available,
\* and initialization succeeded with the supplied pool, opening nothing
C16_Witness ==
    /\ pc = "initialized"
    /\ Cardinality(Available) = 3
    /\ db.err = "nil"
    /\ db.ConnPool = dialector.Conn
    /\ db.opened = <<>>

\* C17: a visited field matched to a live column had MigrateColumn invoked
\* once, and that invocation sent at most one ALTER TABLE ... ALTER COLUMN
\* statement: none for an auto-increment field, none when neither type or
\* length nor nullability differs (nullability as MigrateColumn compares
\* it: not for a primary key, and only when the column reports it), and
\* otherwise one statement, right after the call, whose clauses are SET
\* DATA TYPE if type or length differs, then SET NOT NULL or DROP NOT NULL
\* if nullability differs.
C17_SingleAlterStatement ==
    Diffing =>
        \A n \in Visited :
            Matches(n) # {} =>
                LET f == DiffEntity.FieldsByDBName[n]
                    t == columnTypes.table
                    col == MatchOf(n)
                    calls == Positions("call", "MigrateColumn", t, n)
                    alters == Positions("exec", "ALTER COLUMN", t, n)
                    expected == DataTypeOf(f).base
                    actual == DatabaseTypeName([c |-> col])
                    typeDiffers == /\ ~(expected = "VARCHAR" /\ actual = "TEXT")
                                   /\ expected # actual
                    lengthDiffers == col.LengthOk /\ f.Size > 0 /\ f.Size # col.Length
                    nullDiffers == ~f.PrimaryKey /\ col.NullableOk /\ f.NotNull = col.Nullable
                    want == (IF typeDiffers \/ lengthDiffers THEN <<"SET DATA TYPE">> ELSE <<>>)
                            \o (IF ~nullDiffers THEN <<>>
                                ELSE IF f.NotNull THEN <<"SET NOT NULL">>
                                ELSE <<"DROP NOT NULL">>)
                IN  /\ Cardinality(calls) = 1
                    /\ Cardinality(alters) <= 1
                    /\ f.AutoIncrement => alters = {}
                    /\ (~f.AutoIncrement /\ want = <<>>) => alters = {}
                    /\ (~f.AutoIncrement /\ want # <<>>) =>
                          /\ Cardinality(alters) = 1
                          /\ \A i \in alters : log[i].clauses = want /\ (i - 1) \in calls

\* C17 witness: a field whose length and nullability both differ from its
\* live column got one statement carrying SET DATA TYPE then SET NOT NULL,
\* and an auto-increment field of the same entity got none
C17_Witness ==
    /\ Diffing
    /\ \E n \in Visited :
          /\ Matches(n) # {}
          /\ Cardinality(Positions("exec", "ALTER COLUMN", columnTypes.table, n)) = 1
          /\ \A i \in Positions("exec", "ALTER COLUMN", columnTypes.table, n) :
                log[i].clauses = <<"SET DATA TYPE", "SET NOT NULL">>
    /\ \E n \in Visited :
          /\ Matches(n) # {}
          /\ DiffEntity.FieldsByDBName[n].AutoIncrement
          /\ Positions("call", "MigrateColumn", columnTypes.table, n) # {}
          /\ Positions("exec", "ALTER COLUMN", columnTypes.table, n) = {}

\* C20: once a statement has failed while an entity was synchronised, the
\* pass is over and has returned the error, and for every entity later in
\* the order of the pass the log holds no existence check, no query and no
\* statement, and its table is as it was when the pass began.
C20_FailureEndsPass ==
    \A i \in 1..Len(log) :
        (log[i].kind = "exec" /\ ~log[i].ok) =>
            LET order == ReorderModels(values, TRUE)
                k == CHOOSE k \in 1..Len(order) : order[k].Table = log[i].table
            IN  /\ pc = "idle" /\ result = "err"
                /\ \A m \in (k + 1)..Len(order) :
                      /\ \A j \in 1..Len(log) : log[j].table # order[m].Table
                      /\ live[order[m].Table] = liveBefore[order[m].Table]

\* C20 witness: a statement failed for the first entity of a pass whose
\* second entity has a live table to diff, and that table is untouched
C20_Witness ==
    /\ pass = 1
    /\ result = "err"
    /\ log # <<>>
    /\ log[Len(log)].kind = "exec" /\ ~log[Len(log)].ok
    /\ log[Len(log)].table = ReorderModels(values, TRUE)[1].Table
    /\ live[ReorderModels(values, TRUE)[2].Table].exists
    /\ liveBefore = live

\* C19: the column fragment is composed in the order base type, NOT NULL,
\* UNIQUE, DEFAULT, and its default is rendered by kind: a text that parses
\* as a number or a boolean bare, CURRENT_TIMESTAMP and IDENTITY as the
\* dialect's keyword, any other text as a quoted string literal.
IsBooleanText(text) == ToUpper(text) \in {<<"T","R","U","E">>, <<"F","A","L","S","E">>}

ClausesInOrder(f, out) ==
    \E withDefault \in BOOLEAN :
        out.clauses = <<"TYPE">>
                      \o (IF f.NotNull THEN <<"NOT NULL">> ELSE <<>>)
                      \o (IF f.Unique THEN <<"UNIQUE">> ELSE <<>>)
                      \o (IF withDefault THEN <<"DEFAULT">> ELSE <<>>)

RenderedByKind(text, r) ==
    LET up == ToUpper(text)
    IN  CASE up = CurrentTimestampKeyword -> ~r.quoted /\ ToUpper(r.text) = CurrentTimestampKeyword
          [] up = <<"I","D","E","N","T","I","T","Y">> -> ~r.quoted /\ r.text = IdentityKeyword
          [] OTHER ->
                IF IsBooleanText(text) \/ ParsesAsFloat(text)
                THEN ~r.quoted /\ ToUpper(r.text) = up
                ELSE r.quoted /\ r.text = text

C19_DefaultRenderedByKind ==
    (tmOut # <<>> /\ tmIn.op = "FullDataTypeOf") =>
        LET f == tmIn.field
            out == tmOut[1]
        IN  /\ ClausesInOrder(f, out)
            /\ "DEFAULT" \in {out.clauses[i] : i \in 1..Len(out.clauses)} =>
                    RenderedByKind(f.DefaultValue, out.default)

\* C19 as the code has it: the fragment is composed in the order base type,
\* NOT NULL, UNIQUE, DEFAULT; its DEFAULT clause renders a parsed default
\* value as a literal (a string between quotes, a number or boolean bare)
\* and an unparsed default text verbatim and bare, the text (-) giving no
\* clause; the rendering by kind is that of DefaultValueOf.
C19_OrderAndDefaultByValue ==
    tmOut # <<>> =>
        LET f == tmIn.field
            out == tmOut[1]
        IN  /\ tmIn.op = "FullDataTypeOf" =>
                /\ ClausesInOrder(f, out)
                /\ ("DEFAULT" \in {out.clauses[i] : i \in 1..Len(out.clauses)})
                        <=> /\ f.HasDefaultValue
                            /\ \/ f.DefaultValueInterface # Nil
                               \/ f.DefaultValue \notin {<<>>, SkipDefaultMarker}
                /\ "DEFAULT" \in {out.clauses[i] : i \in 1..Len(out.clauses)} =>
                        IF f.DefaultValueInterface # Nil
                        THEN /\ out.default.text = f.DefaultValueInterface.text
                             /\ out.default.quoted <=> f.DefaultValueInterface.kind = "string"
                        ELSE /\ out.default.text = f.DefaultValue
                             /\ ~out.default.quoted
            /\ (tmIn.op = "DefaultValueOf" /\ ~f.AutoIncrement /\ f.DefaultValue # <<>>) =>
                    RenderedByKind(f.DefaultValue, out)

C19_Witness ==
    /\ tmOut # <<>>
    /\ tmIn.op = "FullDataTypeOf"
    /\ tmIn.field.DataType = "time"
    /\ tmIn.field.DefaultValue = <<"n","o","w">>
    /\ tmIn.field.DefaultValueInterface = Nil
    /\ tmOut[1].clauses = <<"TYPE", "NOT NULL", "UNIQUE", "DEFAULT">>
    /\ tmOut[1].default = Rendered(FALSE, <<"n","o","w">>)

\* the name without the identifier quotes that surround it
Unquoted(name) ==
    IF Len(name) >= 2 /\ name[1] = QuoteChar /\ name[Len(name)] = QuoteChar
    THEN SubSeq(name, 2, Len(name) - 1)
    ELSE name

\* two names spell the same identifier, letter case and surrounding quotes aside
SameIdentifier(a, b) ==
    LET x == Unquoted(a)
        y == Unquoted(b)
    IN  /\ Len(x) = Len(y)
        /\ \A i \in 1..Len(x) : ToLowerChar(x[i]) = ToLowerChar(y[i])

\* the fetched live columns that are the counterpart of a desired field
Counterparts(n) ==
    {i \in 1..Len(columnTypes.cols) : SameIdentifier(columnTypes.cols[i].c.Name, n)}

\* C21: in the diff a desired field that has a live column of the same name,
\* letter case and surrounding identifier quotes aside, never gets an
\* add-column operation or an ALTER TABLE ... ADD COLUMN statement, and once
\* the field loop has visited it, it was sent to migrate-column, once; so the
\* quoted reserved-word field "ORDER" is matched to the live column ORDER.
C21_QuotedNameMatchesLiveColumn ==
    Diffing =>
        \A n \in DOMAIN DiffEntity.FieldsByDBName :
            Counterparts(n) # {} =>
                LET t == columnTypes.table
                IN  /\ Positions("call", "AddColumn", t, n) = {}
                    /\ Positions("exec", "ADD COLUMN", t, n) = {}
                    /\ n \in Visited =>
                          Cardinality(Positions("call", "MigrateColumn", t, n)) = 1

\* C21 witness: the desired field is the quoted reserved word "ORDER", the
\* live table holds the column ORDER, and the field loop sent the field to
\* migrate-column
C21_Witness ==
    /\ Diffing
    /\ LET n == <<QuoteChar, "O","R","D","E","R", QuoteChar>>
           t == columnTypes.table
       IN  /\ n \in Visited
           /\ \E i \in 1..Len(columnTypes.cols) :
                 columnTypes.cols[i].c.Name = <<"O","R","D","E","R">>
           /\ Positions("call", "MigrateColumn", t, n) # {}
           /\ Positions("call", "AddColumn", t, n) = {}

====
